---- MODULE Spec2Model ----
(***************************************************************************)
(* Model of data_preprocess.cpp: the BGEEncoder wrapper (constructor,      *)
(* destructor, encode) and the driver main(), which reads documents.json,  *)
(* encodes every document and writes preprocessed_documents.json.          *)
(*                                                                         *)
(* JSON values are records [t, s, n, d]: t the nlohmann value type, s the  *)
(* string payload, n/d the number n/d (d = 1 for the integer types).       *)
(* The inference engine (llama.cpp) is opaque: every return value the      *)
(* code tests is drawn from the values its interface can return.           *)
(***************************************************************************)
EXTENDS Integers, Sequences, FiniteSets, TLC

\* ---------------------------------------------------------------- bounds
\* Longest input array of the general specification.
MaxDocs == 2
\* Embedding dimension of the model artifact that is not the expected one.
SmallDim == 2
\* Largest token count the tokenizer reports for a text (besides overflow).
MaxTokens == 2
\* Longest input array of the specification of long runs.
ProgressDocs == 250

\* ------------------------------------------------------ program constants
\* if (n_embd != 768)
ExpectedDim == 768
\* if (i % 100 == 0)
ProgressInterval == 100
\* INT32_MIN
Int32Min == -2147483647 - 1

\* ------------------------------------------------------------ JSON values
\* A 64-bit integer is held as two 32-bit words: hi (bits 63..32, signed)
\* and n (bits 31..0, read as a signed int); a float is n/d.
JNull == [t |-> "null", s |-> "", hi |-> 0, n |-> 0, d |-> 1]
\* The key is absent from the object (not a JSON value).
JMissing == [t |-> "missing", s |-> "", hi |-> 0, n |-> 0, d |-> 1]
JStr(str) == [t |-> "string", s |-> str, hi |-> 0, n |-> 0, d |-> 1]
JInt64(high, low) == [t |-> "integer", s |-> "", hi |-> high, n |-> low, d |-> 1]
JFloat(num, den) == [t |-> "float", s |-> "", hi |-> 0, n |-> num, d |-> den]
JBool(b) == [t |-> "boolean", s |-> "", hi |-> 0, n |-> IF b THEN 1 ELSE 0, d |-> 1]

\* The 64-bit value of an int (sign extension), as a json integer.
SignExt(k) == IF k < 0 THEN -1 ELSE 0
JInt(k) == JInt64(SignExt(k), k)

\* An element of the input array: an object with (possibly absent) members
\* text and id, or a value of another type.
DocObj(text, id) == [t |-> "object", text |-> text, id |-> id]
DocOther(type) == [t |-> type, text |-> JMissing, id |-> JMissing]

\* A top-level value: an array of elements, or another type with n members.
TopArray(elems) == [t |-> "array", elems |-> elems, n |-> Len(elems)]
TopOther(type, members) == [t |-> type, elems |-> <<>>, n |-> members]

\* static_cast<int>(x) of a 64-bit integer: its low 32 bits.
LowWord(v) == v.n

\* static_cast<int>(double): truncation toward zero.
TruncDiv(num, den) ==
    IF num >= 0 THEN num \div den ELSE 0 - ((0 - num) \div den)

\* ----------------------------------------------------- nlohmann accessors
\* Faulty variant of JsonSize: only an array has a size.
JsonSizeArrayOnly(v) == IF v.t = "array" THEN v.n ELSE 0

\* json::size(): 0 for null, the element count for an array, the member count
\* for an object, 1 for every scalar.
JsonSize(v) ==
    IF v.t = "null" THEN 0
    ELSE IF v.t \in {"array", "object"} THEN v.n
    ELSE 1

\* input_data[i] on a non-const json: only an array (or null) can be indexed
\* by a number; every other type raises type_error 305.
IndexThrows(v) == v.t \notin {"array", "null"}

\* doc[key] on a non-const json: a null becomes an object, an absent key is
\* inserted with the value null; every type but object and null raises 305.
KeyThrows(doc) == doc.t \notin {"object", "null"}
KeyValue(member) == IF member = JMissing THEN JNull ELSE member

\* doc after doc["text"] / doc["id"] returned a reference.
AfterTextAccess(doc) == [doc EXCEPT !.t = "object", !.text = KeyValue(doc.text)]
AfterIdAccess(doc) == [doc EXCEPT !.t = "object", !.id = KeyValue(doc.id)]

\* get<std::string>(): a string, or type_error 302.
GetStringThrows(v) == v.t # "string"

\* get<int>(): from_json for an arithmetic type takes every number type and
\* boolean through static_cast<int>; every other type raises type_error 302.
GetIntThrows(v) == v.t \notin {"integer", "float", "boolean"}
GetInt(v) ==
    IF v.t = "float" THEN TruncDiv(v.n, v.d) ELSE LowWord(v)

\* ------------------------------------------------------------ the encoder
\* The engine's answers to one encode call: r the dry-run return of
\* llama_tokenize, r2ok whether the second llama_tokenize returned >= 0,
\* status the return of llama_encode, embd whether llama_get_embeddings_seq
\* returned a pointer, and ub how the build treats the signed overflow of
\* -r when r is INT32_MIN ("wrap": two's complement negation, then the test
\* n_tokens <= 0; "fold": the test compiled as r >= 0).
DryRunReturns == {Int32Min} \cup {0 - k : k \in 0..MaxTokens} \cup {1}
EngineAnswers ==
    [r : DryRunReturns, ub : {"wrap", "fold"}, r2ok : BOOLEAN,
     status : {0, 1}, embd : BOOLEAN]

\* const int n_tokens = -llama_tokenize(...): the value the negation leaves
\* in the register (two's complement: INT32_MIN negates to itself).
NegatedCount(r) == IF r = Int32Min THEN Int32Min ELSE 0 - r

\* if (n_tokens <= 0), as the build evaluates it.
CountRejected(r, ub) ==
    IF r = Int32Min /\ ub = "fold" THEN r >= 0 ELSE NegatedCount(r) <= 0

\* The engine's pooled embedding buffer for sequence 0: n_embd floats (the
\* k-th float stands as k).
EngineBuffer(dim) == [k \in 1..dim |-> k]

\* Faulty variant of CopyEmbedding: the expected dimension is copied, not the model's.
CopyEmbeddingExpected(buf, dim) ==
    [k \in 1..ExpectedDim |-> IF k <= Len(buf) THEN buf[k] ELSE 0]

\* std::vector<float> embedding(embd, embd + n_embd)
CopyEmbedding(buf, dim) == SubSeq(buf, 1, dim)

EncodeFail(r, what, calls) ==
    [r |-> r, ok |-> FALSE, what |-> what, calls |-> calls, vec |-> <<>>]

\* BGEEncoder::encode: the dry-run return it saw, the calls made into the
\* engine, and the vector returned or the error raised.
Encode(dim, e) ==
    LET ntok == NegatedCount(e.r) IN
    IF CountRejected(e.r, e.ub)
    THEN EncodeFail(e.r, "Failed to tokenize text", <<"tokenize_dry">>)
    ELSE IF ntok < 0
    THEN \* std::vector<llama_token> tokens(n_tokens): size_t(n_tokens) > max_size
         EncodeFail(e.r, "std::length_error", <<"tokenize_dry">>)
    ELSE IF ~e.r2ok
    THEN EncodeFail(e.r, "Failed to tokenize text", <<"tokenize_dry", "tokenize_buf">>)
    ELSE IF e.status # 0
    THEN EncodeFail(e.r, "Failed to encode batch",
                    <<"tokenize_dry", "tokenize_buf", "llama_encode">>)
    ELSE IF ~e.embd
    THEN EncodeFail(e.r, "Failed to get embeddings",
                    <<"tokenize_dry", "tokenize_buf", "llama_encode", "get_embeddings">>)
    ELSE [r |-> e.r, ok |-> TRUE, what |-> "",
          calls |-> <<"tokenize_dry", "tokenize_buf", "llama_encode", "get_embeddings">>,
          vec |-> CopyEmbedding(EngineBuffer(dim), dim)]

\* A log entry: a call, a line of output or a step, with the document index
\* it belongs to (-1 outside the loop).
Ev(name, idx) == [ev |-> name, i |-> idx]
TagAll(names, idx) == [k \in 1..Len(names) |-> Ev(names[k], idx)]

\* Faulty variant of ReleaseOnCtxFailure: the model is not released before the throw.
ReleaseOnCtxFailureLeak(m) == [model |-> m, events |-> <<>>]

\* if (ctx == nullptr) { llama_model_free(model); throw ... }
ReleaseOnCtxFailure(m) == [model |-> "freed", events |-> <<Ev("llama_model_free", -1)>>]

\* BGEEncoder::BGEEncoder: mf is the model artifact, ctxOk whether
\* llama_init_from_model returned a context. A pointer member is "none"
\* (never assigned), "null", "live" or "freed" (released, the member still
\* holding the address).
Construct(mf, ctxOk) ==
    LET loadEv == <<Ev("ggml_backend_load_all", -1), Ev("llama_load_model_from_file", -1)>>
        dimEv == <<Ev("stdout_model_loaded", -1)>>
                 \o (IF mf.n_embd # ExpectedDim THEN <<Ev("stderr_warn_dim", -1)>> ELSE <<>>)
                 \o <<Ev("llama_init_from_model", -1)>>
    IN IF ~mf.loads
       THEN [threw |-> TRUE, what |-> "Failed to load model", model |-> "null",
             ctx |-> "none", n_embd |-> 0, events |-> loadEv]
       ELSE IF ~ctxOk
       THEN [threw |-> TRUE, what |-> "Failed to create context",
             model |-> ReleaseOnCtxFailure("live").model,
             ctx |-> "null", n_embd |-> mf.n_embd,
             events |-> loadEv \o dimEv \o ReleaseOnCtxFailure("live").events]
       ELSE [threw |-> FALSE, what |-> "", model |-> "live", ctx |-> "live",
             n_embd |-> mf.n_embd,
             events |-> loadEv \o dimEv
                        \o (IF mf.has_encoder THEN <<>>
                            ELSE <<Ev("stderr_warn_not_encoder", -1)>>)]

\* BGEEncoder::~BGEEncoder: if (ctx) llama_free(ctx); if (model) llama_model_free(model);
Destroy(m, c) ==
    [ctx |-> IF c # "null" THEN "freed" ELSE c,
     model |-> IF m # "null" THEN "freed" ELSE m,
     events |-> (IF c # "null" THEN <<Ev("llama_free", -1)>> ELSE <<>>)
                \o (IF m # "null" THEN <<Ev("llama_model_free", -1)>> ELSE <<>>)]

\* return 0 at the end of main.
SuccessCode == 0
\* catch (const std::exception& e): the message on standard error, return 1.
CatchCode == 1
\* Faulty variant of OpenFailCode: a failed open falls to the final return 0.
OpenFailCodeSuccess == SuccessCode
\* The two return 1 after a failed open.
OpenFailCode == 1

\* ------------------------------------------------------------------ state
VARIABLES
    pc,           \* the stage main is at
    in_file,      \* documents.json: whether it opens, parses, and its value
    model_file,   \* the model artifact: whether it loads, its dimension
    out_file,     \* preprocessed_documents.json on disk
    input_data,   \* json input_data
    model,        \* BGEEncoder::model
    ctx,          \* BGEEncoder::ctx
    n_embd,       \* BGEEncoder::n_embd
    i,            \* the loop index
    output_data,  \* json output_data
    exit_code,    \* main's return value, -1 while it runs
    last_encode,  \* the engine's answers and the result of the latest encode call
    log           \* calls into the engine, output lines and steps, in order

vars == <<pc, in_file, model_file, out_file, input_data, model, ctx, n_embd, i,
          output_data, exit_code, last_encode, log>>

\* Everything encode can do on an encoder of each dimension.
EncodeResults ==
    [dim \in {SmallDim, ExpectedDim} |-> { Encode(dim, e) : e \in EngineAnswers }]

\* ----------------------------------------------------------------- inputs
Docs ==
    { DocObj(JStr("a"), JInt(7)), DocObj(JStr("b"), JInt(-3)),
      DocObj(JStr("a"), JInt64(1, 7)),
      DocObj(JMissing, JInt(7)), DocObj(JInt(5), JInt(7)),
      DocObj(JStr("a"), JMissing), DocObj(JStr("a"), JStr("x")),
      DocObj(JStr("a"), JFloat(3, 2)), DocObj(JStr("a"), JBool(TRUE)),
      DocOther("null"), DocOther("integer") }

Arrays == UNION { [1..k -> Docs] : k \in 0..MaxDocs }

TopValues ==
    { TopArray(a) : a \in Arrays }
    \cup { TopOther("null", 0), TopOther("object", 0), TopOther("object", 2),
           TopOther("integer", 0), TopOther("string", 0), TopOther("boolean", 0) }

InFile(exists, parses, value) == [exists |-> exists, parses |-> parses, value |-> value]
InFiles ==
    { InFile(FALSE, FALSE, TopOther("null", 0)), InFile(TRUE, FALSE, TopOther("null", 0)) }
    \cup { InFile(TRUE, TRUE, v) : v \in TopValues }

ModelFiles ==
    { [loads |-> FALSE, n_embd |-> 0, has_encoder |-> FALSE] }
    \cup [loads : {TRUE}, n_embd : {SmallDim, ExpectedDim}, has_encoder : BOOLEAN]

\* The output path before the run: absent, or the file a previous run left.
OutFiles ==
    { [exists |-> b, prev |-> b, written |-> FALSE, data |-> TopOther("null", 0)]
        : b \in BOOLEAN }

NoEncode == [idx |-> -1, r |-> 0, ok |-> FALSE, what |-> "", calls |-> <<>>, len |-> 0]

InitWith(files, models) ==
    /\ pc = "OpenInput"
    /\ in_file \in files
    /\ model_file \in models
    /\ out_file \in OutFiles
    /\ input_data = TopOther("null", 0)
    /\ model = "none"
    /\ ctx = "none"
    /\ n_embd = 0
    /\ i = 0
    /\ output_data = TopOther("null", 0)
    /\ exit_code = -1
    /\ last_encode = NoEncode
    /\ log = <<>>

Init == InitWith(InFiles, ModelFiles)

\* ------------------------------------------------------------- the driver
\* Faulty variant of ProgressDue: every 100th document counted from one.
ProgressDueOneBased(idx) == (idx + 1) % ProgressInterval = 0

\* if (i % 100 == 0)
ProgressDue(idx) == idx % ProgressInterval = 0

\* Faulty variant of EmptyOutput: json output_data; (a null until the first push_back).
EmptyOutputNull == TopOther("null", 0)

\* json output_data = json::array();
EmptyOutput == TopArray(<<>>)

\* output_data.push_back(entry)
PushBack(out, entry) == TopArray(Append(out.elems, entry))

\* entry["id"] = id; entry["text"] = text; entry["embedding"] = embedding;
Entry(id, text, vec) == [id |-> JInt(id), text |-> JStr(text), embedding |-> vec]

Thrown(what, events, input, enc) ==
    [threw |-> TRUE, what |-> what, events |-> events, input |-> input,
     entry |-> Entry(0, "", <<>>), enc |-> enc]

\* One pass through the loop body for index idx, res being what
\* encoder.encode(text) does if it is reached: the events in order, the
\* error raised or the entry built, input_data as the body left it, and the
\* record of the encode call if one was made.
Iteration(input, idx, res, enc) ==
    IF IndexThrows(input)
    THEN Thrown("type_error.305", <<>>, input, enc)
    ELSE
    LET doc == input.elems[idx + 1]
        progress == IF ProgressDue(idx) THEN <<Ev("progress", idx)>> ELSE <<>>
    IN
    IF KeyThrows(doc)
    THEN Thrown("type_error.305", progress \o <<Ev("extract_text", idx)>>, input, enc)
    ELSE
    LET doc1 == AfterTextAccess(doc)
        input1 == [input EXCEPT !.elems[idx + 1] = doc1]
        ev1 == progress \o <<Ev("extract_text", idx)>>
    IN
    IF GetStringThrows(doc1.text)
    THEN Thrown("type_error.302", ev1, input1, enc)
    ELSE
    LET text == doc1.text.s
        doc2 == AfterIdAccess(doc1)
        input2 == [input EXCEPT !.elems[idx + 1] = doc2]
        ev2 == ev1 \o <<Ev("extract_id", idx)>>
    IN
    IF GetIntThrows(doc2.id)
    THEN Thrown("type_error.302", ev2, input2, enc)
    ELSE
    LET id == GetInt(doc2.id)
        ev3 == ev2 \o <<Ev("encode", idx)>> \o TagAll(res.calls, idx)
        enc3 == [idx |-> idx, r |-> res.r, ok |-> res.ok, what |-> res.what,
                 calls |-> res.calls, len |-> Len(res.vec)]
    IN
    IF ~res.ok
    THEN Thrown(res.what, ev3, input2, enc3)
    ELSE [threw |-> FALSE, what |-> "", events |-> ev3 \o <<Ev("push_back", idx)>>,
          input |-> input2, entry |-> Entry(id, text, res.vec), enc |-> enc3]

\* out_file << output_data.dump(2): the file holds the array as serialized.
Dump(out) == [exists |-> TRUE, prev |-> FALSE, written |-> TRUE, data |-> out]

\* for (size_t i = 0; i < input_data.size(); i++)
LoopCond(idx, input) == idx < JsonSize(input)

\* The stage that follows a stage that completed.
NextStage(stage) ==
    CASE stage = "OpenInput" -> "LoadModel"
      [] stage = "LoadModel" -> "ProcessAll"
      [] stage = "ProcessAll" -> "WriteOutput"
      [] OTHER -> "Exit"

\* Faulty variant of FailStage: an exception in the loop is swallowed and the
\* documents encoded so far are written.
FailStageWritePartial(stage) == IF stage = "ProcessAll" THEN "WriteOutput" ELSE "Exit"

\* Faulty variant of FailStage: a failed OpenInput falls through to the next stage.
FailStageFallThrough(stage) == IF stage = "OpenInput" THEN "LoadModel" ELSE "Exit"

\* Where control goes when a stage fails: return 1, or the catch and return 1.
FailStage(stage) == "Exit"

OpenInput ==
    /\ pc = "OpenInput"
    /\ IF ~in_file.exists
       THEN /\ log' = log \o <<Ev("stdout_loading", -1), Ev("open_in", -1),
                               Ev("stderr_could_not_open", -1)>>
            /\ exit_code' = OpenFailCode
            /\ pc' = FailStage(pc)
            /\ UNCHANGED input_data
       ELSE IF ~in_file.parses
       THEN /\ log' = log \o <<Ev("stdout_loading", -1), Ev("open_in", -1),
                               Ev("parse", -1), Ev("stderr_error", -1)>>
            /\ exit_code' = CatchCode
            /\ pc' = FailStage(pc)
            /\ UNCHANGED input_data
       ELSE /\ log' = log \o <<Ev("stdout_loading", -1), Ev("open_in", -1),
                               Ev("parse", -1), Ev("stdout_found", -1)>>
            /\ input_data' = in_file.value
            /\ pc' = NextStage(pc)
            /\ UNCHANGED exit_code
    /\ UNCHANGED <<in_file, model_file, out_file, model, ctx, n_embd, i,
                   output_data, last_encode>>

LoadModel ==
    /\ pc = "LoadModel"
    /\ \E ctxOk \in BOOLEAN :
         LET c == Construct(model_file, ctxOk) IN
         /\ model' = c.model
         /\ ctx' = c.ctx
         /\ n_embd' = c.n_embd
         /\ IF c.threw
            THEN /\ log' = log \o <<Ev("stdout_loading_model", -1)>> \o c.events
                               \o <<Ev("stderr_error", -1)>>
                 /\ exit_code' = CatchCode
                 /\ pc' = FailStage(pc)
                 /\ UNCHANGED <<output_data, i>>
            ELSE /\ log' = log \o <<Ev("stdout_loading_model", -1)>> \o c.events
                 /\ output_data' = EmptyOutput
                 /\ i' = 0
                 /\ pc' = NextStage(pc)
                 /\ UNCHANGED exit_code
    /\ UNCHANGED <<in_file, model_file, out_file, input_data, last_encode>>

ProcessDoc ==
    /\ pc = "ProcessAll"
    /\ LoopCond(i, input_data)
    /\ \E res \in EncodeResults[n_embd] :
         LET it == Iteration(input_data, i, res, last_encode) IN
         /\ input_data' = it.input
         /\ last_encode' = it.enc
         /\ IF it.threw
            THEN LET d == Destroy(model, ctx) IN
                 /\ model' = d.model
                 /\ ctx' = d.ctx
                 /\ log' = log \o it.events \o d.events \o <<Ev("stderr_error", -1)>>
                 /\ exit_code' = CatchCode
                 /\ pc' = FailStage(pc)
                 /\ UNCHANGED <<output_data, i>>
            ELSE /\ output_data' = PushBack(output_data, it.entry)
                 /\ i' = i + 1
                 /\ log' = log \o it.events
                 /\ UNCHANGED <<model, ctx, exit_code, pc>>
    /\ UNCHANGED <<in_file, model_file, out_file, n_embd>>

FinishLoop ==
    /\ pc = "ProcessAll"
    /\ ~LoopCond(i, input_data)
    /\ pc' = NextStage(pc)
    /\ UNCHANGED <<in_file, model_file, out_file, input_data, model, ctx, n_embd, i,
                   output_data, exit_code, last_encode, log>>

WriteOutput ==
    /\ pc = "WriteOutput"
    /\ \E openOk \in BOOLEAN :
         LET d == Destroy(model, ctx) IN
         /\ model' = d.model
         /\ ctx' = d.ctx
         /\ IF ~openOk
            THEN /\ log' = log \o <<Ev("stdout_writing", -1), Ev("open_out", -1),
                                    Ev("stderr_could_not_open", -1)>> \o d.events
                 /\ exit_code' = OpenFailCode
                 /\ pc' = FailStage(pc)
                 /\ UNCHANGED out_file
            ELSE /\ log' = log \o <<Ev("stdout_writing", -1), Ev("open_out", -1),
                                    Ev("write_out", -1), Ev("stdout_success", -1)>>
                               \o d.events
                 /\ out_file' = Dump(output_data)
                 /\ exit_code' = SuccessCode
                 /\ pc' = NextStage(pc)
    /\ UNCHANGED <<in_file, model_file, input_data, n_embd, i, output_data, last_encode>>

\* Long runs: arrays of well-formed documents around the progress interval,
\* and two with one document whose text is missing.
GoodDoc == DocObj(JStr("a"), JInt(7))
BadDoc == DocObj(JMissing, JInt(7))
ArrayWithBadAt(len, bad) == [k \in 1..len |-> IF k = bad + 1 THEN BadDoc ELSE GoodDoc]
ProgressArrays ==
    { ArrayWithBadAt(len, len) :
        len \in {1, ProgressInterval, ProgressInterval + 1, ProgressDocs} }
    \cup { ArrayWithBadAt(ProgressDocs, bad) :
             bad \in {ProgressInterval, ProgressInterval + 1} }
ProgressFiles == { InFile(TRUE, TRUE, TopArray(a)) : a \in ProgressArrays }
ProgressModels == { [loads |-> TRUE, n_embd |-> SmallDim, has_encoder |-> TRUE] }

InitProgress == InitWith(ProgressFiles, ProgressModels)

Next == OpenInput \/ LoadModel \/ ProcessDoc \/ FinishLoop \/ WriteOutput

Spec == Init /\ [][Next]_vars

SpecProgress == InitProgress /\ [][Next]_vars

\* ------------------------------------------------------ reading the state
HasEv(name) == \E k \in 1..Len(log) : log[k].ev = name
CountEv(name) == Cardinality({ k \in 1..Len(log) : log[k].ev = name })
Positions(name) == { k \in 1..Len(log) : log[k].ev = name }

Exited == pc = "Exit"
\* The output path is as it was before the run.
OutputUntouched == ~out_file.written /\ out_file.prev = out_file.exists /\ ~HasEv("open_out")
\* The encoder was constructed, so the loop was entered.
EncoderBuilt == ctx \in {"live", "freed"}
\* The file parsed to an array.
ParsedArray == in_file.exists /\ in_file.parses /\ in_file.value.t = "array"

\* An input element as the specification requires it.
ValidDoc(doc) == doc.t = "object" /\ doc.text.t = "string" /\ doc.id.t = "integer"
ValidInput == ParsedArray /\ \A k \in 1..Len(in_file.value.elems) : ValidDoc(in_file.value.elems[k])
\* The id fits the program's int.
IdFitsInt(doc) == doc.id.hi = (IF doc.id.n < 0 THEN -1 ELSE 0)

\* -------------------------------------------------------------------- C1
\* C1 (as claimed): for every valid input array of length L, on a run that
\* wrote its output, the written array has length L and output[k].id =
\* input[k].id and output[k].text = input[k].text for every k, in order.
C1_RoundTrip ==
    (Exited /\ out_file.written /\ ValidInput) =>
        LET inp == in_file.value.elems
            out == out_file.data.elems
        IN /\ out_file.data.t = "array"
           /\ Len(out) = Len(inp)
           /\ \A k \in 1..Len(inp) : out[k].id = inp[k].id /\ out[k].text = inp[k].text

\* The same round trip for inputs whose ids all fit a 32-bit int, which is
\* where the code keeps it.
C1_RoundTripInt32 ==
    (Exited /\ out_file.written /\ ValidInput
       /\ \A k \in 1..Len(in_file.value.elems) : IdFitsInt(in_file.value.elems[k])) =>
        LET inp == in_file.value.elems
            out == out_file.data.elems
        IN /\ out_file.data.t = "array"
           /\ Len(out) = Len(inp)
           /\ \A k \in 1..Len(inp) : out[k].id = inp[k].id /\ out[k].text = inp[k].text

C1_RoundTripInt32_Witness ==
    /\ Exited /\ out_file.written /\ ValidInput
    /\ Len(out_file.data.elems) = 2
    /\ out_file.data.elems[1].text # out_file.data.elems[2].text

\* -------------------------------------------------------------------- C2
\* A document whose text or id key is missing or wrong-typed, as the claim
\* reads it: text must be a string and id an integer.
Malformed(doc) == ~ValidDoc(doc)
\* A document whose extraction the code rejects: the element is not an
\* object (or null), text is not a string, or id is neither a number nor a
\* boolean.
Rejected(doc) ==
    \/ doc.t \notin {"object", "null"}
    \/ doc.text.t # "string"
    \/ doc.id.t \notin {"integer", "float", "boolean"}

\* C2 (as claimed): once the loop runs over an array holding a document with
\* a missing or wrong-typed text or id, or an encode call fails, the run ends
\* with exit code 1 and the output file is not written.
C2_FailFastAsClaimed ==
    (Exited /\ ParsedArray /\ EncoderBuilt
       /\ ( \/ \E k \in 1..Len(in_file.value.elems) : Malformed(in_file.value.elems[k])
            \/ (last_encode.idx >= 0 /\ ~last_encode.ok) )) =>
        (exit_code = 1 /\ ~out_file.written)

\* C2 (amended): the same with the documents the code rejects: a boolean or
\* non-integer number id is converted, not rejected. And whenever the loop
\* stopped before the end of the array, at document i, that document was
\* rejected or its encode failed, the documents before it were all encoded,
\* the exit code is 1 and the output file is untouched.
C2_FailFast ==
    /\ (Exited /\ ParsedArray /\ EncoderBuilt
          /\ ( \/ \E k \in 1..Len(in_file.value.elems) : Rejected(in_file.value.elems[k])
               \/ (last_encode.idx >= 0 /\ ~last_encode.ok) )) =>
           (exit_code = 1 /\ OutputUntouched)
    /\ (Exited /\ ParsedArray /\ EncoderBuilt /\ i < Len(in_file.value.elems)) =>
           /\ exit_code = 1
           /\ OutputUntouched
           /\ Len(output_data.elems) = i
           /\ \/ Rejected(in_file.value.elems[i + 1])
              \/ (last_encode.idx = i /\ ~last_encode.ok)

\* Document 1 failed after document 0 was encoded, with a previous run's file
\* on disk.
C2_Witness ==
    /\ Exited /\ ParsedArray /\ EncoderBuilt
    /\ i = 1 /\ Len(output_data.elems) = 1
    /\ Rejected(in_file.value.elems[2])
    /\ exit_code = 1
    /\ out_file.exists /\ out_file.prev

\* -------------------------------------------------------------------- C3
\* C3 (as claimed): a parsed top-level value that is not an array ends the
\* run with exit code 1 and no output written.
C3_NonArrayAsClaimed ==
    (Exited /\ in_file.exists /\ in_file.parses /\ in_file.value.t # "array") =>
        (exit_code = 1 /\ ~out_file.written)

\* C3 (amended): a top-level number, string, boolean or non-empty object
\* ends the run with exit code 1 and no output written, the error raised by
\* the element access before anything of document 0 is printed or read; a
\* top-level null or empty object has size 0, so the loop never runs and the
\* run ends as for an empty array (exit code 0 and an empty array written
\* when the model loads and the output opens).
C3_NonArray ==
    (Exited /\ in_file.exists /\ in_file.parses /\ in_file.value.t # "array") =>
        IF \/ in_file.value.t \in {"integer", "string", "boolean"}
           \/ (in_file.value.t = "object" /\ in_file.value.n > 0)
        THEN /\ exit_code = 1
             /\ OutputUntouched
             /\ ~HasEv("progress") /\ ~HasEv("extract_text") /\ ~HasEv("encode")
        ELSE /\ ~HasEv("progress") /\ ~HasEv("extract_text") /\ ~HasEv("encode")
             /\ (EncoderBuilt /\ HasEv("write_out")) =>
                    (exit_code = 0 /\ out_file.written /\ out_file.data = TopArray(<<>>))
             /\ exit_code = 0 <=> (EncoderBuilt /\ HasEv("write_out"))

\* A top-level number reached the loop and the run failed there.
C3_Witness ==
    /\ Exited /\ in_file.exists /\ in_file.parses
    /\ in_file.value.t = "integer"
    /\ EncoderBuilt /\ exit_code = 1

\* -------------------------------------------------------------------- C4
\* Every stage completed: the input opened and parsed, the encoder was
\* constructed, every element was encoded and appended, the output file was
\* opened and written.
AllStagesCompleted ==
    /\ in_file.exists /\ in_file.parses
    /\ model_file.loads /\ EncoderBuilt
    /\ CountEv("push_back") = Len(in_file.value.elems)
    /\ out_file.written

C5_EmbeddingLength ==
    /\ \A k \in 1..Len(output_data.elems) :
           Len(output_data.elems[k].embedding) = model_file.n_embd
    /\ out_file.written =>
           \A k \in 1..Len(out_file.data.elems) :
               Len(out_file.data.elems[k].embedding) = model_file.n_embd
    /\ EncoderBuilt => n_embd = model_file.n_embd
    /\ HasEv("stderr_warn_dim") <=>
           (HasEv("stdout_model_loaded") /\ model_file.n_embd # ExpectedDim)
    /\ (HasEv("stdout_model_loaded") /\ model_file.n_embd # ExpectedDim) =>
           /\ HasEv("llama_init_from_model")
           /\ ctx # "null" => EncoderBuilt

\* A model of another dimension wrote a record with that many floats.
C5_Witness ==
    /\ out_file.written
    /\ model_file.n_embd = SmallDim
    /\ HasEv("stderr_warn_dim")
    /\ Len(out_file.data.elems) >= 1
    /\ Len(out_file.data.elems[1].embedding) = SmallDim

\* -------------------------------------------------------------------- C6
IsProgressEv(x) == x.ev = "progress"
ProgressLines == SelectSeq(log, IsProgressEv)

\* C6: a progress line is printed for document i exactly when i is a
\* multiple of 100, directly before the text of that document is extracted;
\* the lines come in index order, one per multiple; a finished run over 250
\* documents printed the lines for 0, 100 and 200 and no other.
C6_Progress ==
    /\ \A k \in 1..Len(log) :
         /\ log[k].ev = "extract_text" =>
              /\ k > 1
              /\ IF log[k].i % 100 = 0
                 THEN log[k - 1] = Ev("progress", log[k].i)
                 ELSE log[k - 1].ev # "progress"
         /\ log[k].ev = "progress" =>
              /\ log[k].i % 100 = 0
              /\ k < Len(log)
              /\ log[k + 1] = Ev("extract_text", log[k].i)
    /\ \A k \in 1..Len(ProgressLines) : ProgressLines[k].i = 100 * (k - 1)
    /\ (Exited /\ exit_code = 0 /\ Len(in_file.value.elems) = 250) =>
           ProgressLines = <<Ev("progress", 0), Ev("progress", 100), Ev("progress", 200)>>

\* A run over 250 documents finished with exactly the three lines.
C6_Witness ==
    /\ Exited /\ exit_code = 0
    /\ Len(output_data.elems) = 250
    /\ Len(ProgressLines) = 3
    /\ ProgressLines[3].i = 200

\* -------------------------------------------------------------------- C7
\* C7: on an input array of length 0 encode is never called and no progress
\* line is printed; when the model loads and the output file opens, the
\* file holds an array of length 0 and the exit code is 0.
C7_EmptyInput ==
    (ParsedArray /\ Len(in_file.value.elems) = 0) =>
        /\ ~HasEv("encode") /\ ~HasEv("tokenize_dry") /\ ~HasEv("progress")
        /\ last_encode.idx = -1
        /\ (Exited /\ EncoderBuilt /\ ~HasEv("stderr_could_not_open")) =>
               /\ exit_code = 0
               /\ out_file.written
               /\ out_file.data.t = "array"
               /\ Len(out_file.data.elems) = 0

C7_Witness ==
    /\ Exited /\ ParsedArray /\ Len(in_file.value.elems) = 0
    /\ exit_code = 0 /\ out_file.written

\* -------------------------------------------------------------------- C8
StageRank(stage) ==
    CASE stage = "OpenInput" -> 1
      [] stage = "LoadModel" -> 2
      [] stage = "ProcessAll" -> 3
      [] stage = "WriteOutput" -> 4
      [] OTHER -> 5

IsEncodeEv(x) == x.ev = "encode"
EncodeEvents == SelectSeq(log, IsEncodeEv)
Before(a, b) == \A p \in Positions(a) : \A q \in Positions(b) : p < q

C8_Step ==
    /\ pc # "Exit"
    /\ StageRank(pc') >= StageRank(pc)
    /\ pc' # pc => (pc' = "Exit" \/ StageRank(pc') = StageRank(pc) + 1)
    /\ pc' = pc => pc = "ProcessAll"
    /\ exit_code' # -1 => pc' = "Exit"
    /\ (pc' = "Exit" /\ pc # "WriteOutput") => exit_code' = 1

C8_Inv ==
    /\ CountEv("llama_load_model_from_file") <= 1
    /\ CountEv("llama_init_from_model") <= 1
    /\ CountEv("open_out") <= 1
    /\ HasEv("llama_load_model_from_file") =>
           (in_file.exists /\ in_file.parses /\ Before("parse", "llama_load_model_from_file"))
    /\ \A k \in 1..Len(EncodeEvents) : EncodeEvents[k].i = k - 1
    /\ HasEv("encode") => (EncoderBuilt /\ Before("llama_init_from_model", "encode"))
    /\ HasEv("open_out") =>
           /\ EncoderBuilt
           /\ Len(EncodeEvents) = Len(in_file.value.elems)
           /\ CountEv("push_back") = Len(in_file.value.elems)
           /\ Before("encode", "open_out")

\* C8: the stages run in the order OpenInput, LoadModel, ProcessAll,
\* WriteOutput, Exit, one at a time and never backwards; a stage that fails
\* goes straight to Exit with code 1; the model is loaded once, after the
\* input parsed; encode is called once per document, in index order, after
\* construction; the output file is opened once, after the last encode.
C8_StageOrder == [][C8_Step]_vars /\ []C8_Inv

\* Two documents were encoded and the run finished.
C8_Witness ==
    /\ Exited /\ exit_code = 0
    /\ Len(EncodeEvents) = 2
    /\ HasEv("open_out")

\* -------------------------------------------------------------------- C9
EngineCalls == {"tokenize_dry", "tokenize_buf", "llama_encode", "get_embeddings"}
UsePositions == { k \in 1..Len(log) : log[k].ev \in EngineCalls }

\* C9: a loaded model and a created context are each released exactly once
\* by the time main returns, the context before the model; nothing that was
\* not created is released; no engine call follows a release; when context
\* creation fails the model is released, once, before the error is reported.
C9_ResourceRelease ==
    /\ CountEv("llama_model_free") <= 1
    /\ CountEv("llama_free") <= 1
    /\ HasEv("llama_model_free") => (model_file.loads /\ model = "freed")
    /\ HasEv("llama_free") =>
           (ctx = "freed" /\ HasEv("llama_model_free")
              /\ Before("llama_free", "llama_model_free"))
    /\ Exited => (model # "live" /\ ctx # "live")
    /\ (Exited /\ model_file.loads /\ HasEv("llama_load_model_from_file")) =>
           CountEv("llama_model_free") = 1
    /\ (Exited /\ EncoderBuilt) => CountEv("llama_free") = 1
    /\ ctx = "null" =>
           /\ CountEv("llama_model_free") = 1
           /\ ~HasEv("llama_free")
           /\ Before("llama_model_free", "stderr_error")
    /\ \A p \in UsePositions :
           \A q \in Positions("llama_free") \cup Positions("llama_model_free") : p < q

\* Context creation failed after the model loaded.
C9_Witness ==
    /\ Exited /\ model_file.loads /\ ctx = "null"
    /\ model = "freed" /\ CountEv("llama_model_free") = 1

\* ------------------------------------------------------------------- C10
\* C10 (as claimed): with the count the 32-bit negation of the dry-run
\* return, encode fails with the tokenization error after the dry run alone
\* whenever the count is zero or negative; otherwise it tokenizes into the
\* buffer, then runs the forward pass, then asks for the embedding, each
\* step only after the one before succeeded, and returns a vector of the
\* model's dimension only after all four; a failing call returns no vector.
C10_EncodeProtocol ==
    last_encode.idx >= 0 =>
        LET count == IF last_encode.r = Int32Min THEN Int32Min ELSE 0 - last_encode.r
            fail(what, calls) ==
                /\ ~last_encode.ok /\ last_encode.what = what
                /\ last_encode.calls = calls /\ last_encode.len = 0
        IN /\ count <= 0 => fail("Failed to tokenize text", <<"tokenize_dry">>)
           /\ count > 0 =>
                \/ fail("Failed to tokenize text", <<"tokenize_dry", "tokenize_buf">>)
                \/ fail("Failed to encode batch",
                        <<"tokenize_dry", "tokenize_buf", "llama_encode">>)
                \/ fail("Failed to get embeddings",
                        <<"tokenize_dry", "tokenize_buf", "llama_encode", "get_embeddings">>)
                \/ /\ last_encode.ok
                   /\ last_encode.calls =
                        <<"tokenize_dry", "tokenize_buf", "llama_encode", "get_embeddings">>
                   /\ last_encode.len = n_embd
           /\ ~last_encode.ok => (Exited /\ exit_code = 1 /\ Len(output_data.elems) = last_encode.idx)

====
